---- MODULE Spec2Model ----
(***************************************************************************)
(* Model of geocoding_script.py: the write-batched GeocodeCache, the       *)
(* rate-limited retry client of AddressGeocoder, the address formatter     *)
(* and the batch run of main().                                            *)
(*                                                                         *)
(* Strings the program computes on (addresses, queries, cache keys) are    *)
(* sequences of one-character strings, so that strip(), lower(), upper()   *)
(* and ', '.join() are computed.  Optional[T] is <<>> for None and <<v>>   *)
(* for a value v.  Times are in tenths of a second.                        *)
(*                                                                         *)
(* Four specifications share the operators that model the code:            *)
(*   Spec        one run of main() over an arbitrary list of records;      *)
(*   BatchSpec   one run of main() over a list longer than BATCH_SIZE;     *)
(*   ClientSpec  _geocode_with_retry called by an arbitrary caller;        *)
(*   CacheSpec   GeocodeCache called by an arbitrary client.               *)
(* op, setRun, flushWrites and hist are history variables: the code does   *)
(* not read them.                                                          *)
(***************************************************************************)
EXTENDS Integers, Sequences, FiniteSets, TLC

VARIABLES
    cache_data,         \* GeocodeCache.cache_data: key -> stored entry
    dirty_count,        \* GeocodeCache.dirty_count
    is_dirty,           \* GeocodeCache.is_dirty
    disk,               \* content of the cache file CACHE_FILE
    save_log,           \* what _save_cache logged in the last set or force_save
    last_request_time,  \* AddressGeocoder.last_request_time
    request_count,      \* AddressGeocoder.request_count
    now,                \* time.time()
    pc,                 \* position of the single thread of control
    attempt,            \* loop variable of _geocode_with_retry
    address_data,       \* record handed to geocode_address
    formatted_address,  \* local of geocode_address
    result,             \* value returned by the last call
    processed_addresses,\* local of process_addresses
    op,                 \* history: the last operation called and its arguments
    setRun,             \* history: set calls since the cache was last clean
    flushWrites,        \* history: files written by force_save since the last set
    hist                \* history: counters and times of the external attempts

vars == <<cache_data, dirty_count, is_dirty, disk, save_log, last_request_time,
          request_count, now, pc, attempt, address_data, formatted_address,
          result, processed_addresses, op, setRun, flushWrites, hist>>

cacheVars == <<cache_data, dirty_count, is_dirty, disk, save_log>>
clientVars == <<last_request_time, request_count, now, attempt>>
runVars == <<pc, address_data, formatted_address, processed_addresses>>

----------------------------------------------------------------------------
(* GeocodingConfig *)

REQUEST_DELAY == 11
MAX_RETRIES == 3
RETRY_DELAY == 20
BATCH_SIZE == 20

(* Bounds of the model *)

MaxDirty == 22
MaxRecords == 2
MaxCalls == 3
StartTime == 30
MaxBatch == 22

----------------------------------------------------------------------------
(* Strings *)

None == <<>>

Some(v) == <<v>>

lower(s) == [i \in 1..Len(s) |-> IF s[i] = "A" THEN "a" ELSE IF s[i] = "B" THEN "b" ELSE s[i]]

upper(s) == [i \in 1..Len(s) |-> IF s[i] = "a" THEN "A" ELSE IF s[i] = "b" THEN "B" ELSE s[i]]

RECURSIVE lstrip(_)
lstrip(s) == IF s = <<>> THEN s ELSE IF Head(s) = " " THEN lstrip(Tail(s)) ELSE s

RECURSIVE rstrip(_)
rstrip(s) == IF s = <<>> THEN s ELSE IF s[Len(s)] = " " THEN rstrip(SubSeq(s, 1, Len(s) - 1)) ELSE s

strip(s) == rstrip(lstrip(s))

RECURSIVE join(_, _)
join(sep, parts) ==
    IF parts = <<>> THEN <<>>
    ELSE IF Len(parts) = 1 THEN parts[1]
    ELSE parts[1] \o sep \o join(sep, Tail(parts))

str_int(n) == IF n \in 1..9 THEN <<"1", "2", "3", "4", "5", "6", "7", "8", "9">>[n] ELSE "0"

----------------------------------------------------------------------------
(* GeocodeResult *)

GeocodeResult(lat, lon, fa, c, ts, err) ==
    [latitude |-> lat, longitude |-> lon, formatted_address |-> fa,
     cached |-> c, timestamp |-> ts, error |-> err]

isoformat == Some("iso")

ErrorResult_Mutant(msg) == GeocodeResult(None, None, None, FALSE, isoformat, None)

\* GeocodeResult(error=..., timestamp=datetime.now().isoformat())
ErrorResult(msg) == GeocodeResult(None, None, None, FALSE, isoformat, Some(msg))

----------------------------------------------------------------------------
(* GeocodeCache *)

EmptyDict == [k \in {} |-> None]

Put(d, k, v) == [x \in DOMAIN d \cup {k} |-> IF x = k THEN v ELSE d[x]]

JsonFile(d) == [kind |-> "json", data |-> d]

NoFile == [kind |-> "missing", data |-> EmptyDict]

CorruptFile == [kind |-> "corrupt", data |-> EmptyDict]

_load_cache(file) == IF file.kind = "json" THEN file.data ELSE EmptyDict

Cache == [cache_data |-> cache_data, dirty_count |-> dirty_count,
          is_dirty |-> is_dirty, disk |-> disk, save_log |-> save_log]

SaveFailed_Mutant(c, io) ==
    [c EXCEPT !.disk = IF io = "open_fails" THEN @ ELSE CorruptFile,
              !.dirty_count = 0, !.is_dirty = FALSE, !.save_log = "error"]

SaveFailed(c, io) ==
    [c EXCEPT !.disk = IF io = "open_fails" THEN @ ELSE CorruptFile,
              !.save_log = "error"]

SaveDone_Mutant(c) ==
    [c EXCEPT !.disk = JsonFile(c.cache_data), !.dirty_count = 0, !.save_log = "info"]

SaveDone(c) ==
    [c EXCEPT !.disk = JsonFile(c.cache_data), !.dirty_count = 0,
              !.is_dirty = FALSE, !.save_log = "info"]

_save_cache(c, io) == IF io = "ok" THEN SaveDone(c) ELSE SaveFailed(c, io)

_generate_cache_key(address) == <<"md5">> \o strip(lower(address))

get_RawKey_Mutant(c, address) ==
    LET cache_key == <<"md5">> \o address
    IN  IF cache_key \in DOMAIN c.cache_data
        THEN Some([c.cache_data[cache_key] EXCEPT !.cached = TRUE])
        ELSE None

get_Mutant(c, address) ==
    LET cache_key == _generate_cache_key(address)
    IN  IF cache_key \in DOMAIN c.cache_data
        THEN Some(c.cache_data[cache_key])
        ELSE None

get(c, address) ==
    LET cache_key == _generate_cache_key(address)
    IN  IF cache_key \in DOMAIN c.cache_data
        THEN Some([c.cache_data[cache_key] EXCEPT !.cached = TRUE])
        ELSE None

StoredEntry_Mutant(r) == [r EXCEPT !.timestamp = isoformat]

StoredEntry(r) == [r EXCEPT !.timestamp = isoformat, !.cached = FALSE]

BatchFull_Mutant(c) == c.dirty_count > BATCH_SIZE

BatchFull(c) == c.dirty_count >= BATCH_SIZE

set(c, address, r, io) ==
    LET cache_key == _generate_cache_key(address)
        c1 == [c EXCEPT !.cache_data = Put(@, cache_key, StoredEntry(r)),
                        !.dirty_count = @ + 1,
                        !.is_dirty = TRUE]
    IN  IF BatchFull(c1) THEN _save_cache(c1, io) ELSE c1

force_save_Mutant(c, io) == _save_cache(c, io)

force_save(c, io) == IF c.is_dirty THEN _save_cache(c, io) ELSE c

IoOutcomes == {"ok", "open_fails", "write_fails"}

SetCache(c) ==
    /\ cache_data' = c.cache_data
    /\ dirty_count' = c.dirty_count
    /\ is_dirty' = c.is_dirty
    /\ disk' = c.disk
    /\ save_log' = c.save_log

Quiet(c) == [c EXCEPT !.save_log = "none"]

----------------------------------------------------------------------------
(* Inputs of the cache operations *)

Locations ==
    { [latitude |-> "51.5", longitude |-> "-0.1", address |-> "London"],
      [latitude |-> "48.8", longitude |-> "2.3", address |-> "Paris"] }

LocationResult(l) ==
    GeocodeResult(Some(l.latitude), Some(l.longitude), Some(l.address), FALSE, isoformat, None)

Queries == { <<"a">>, <<"A", " ">>, <<"b">> }

SuccessResults == { [LocationResult(l) EXCEPT !.cached = b] : l \in Locations, b \in BOOLEAN }

InitialFiles ==
    {NoFile, CorruptFile, JsonFile(EmptyDict)} \cup
    { JsonFile(Put(EmptyDict, _generate_cache_key(<<"a">>), StoredEntry(LocationResult(l)))) : l \in Locations }

NoOp == [name |-> "none", q |-> <<>>, r |-> None]

NoRecord == <<>>

Broken == 0 - 1

----------------------------------------------------------------------------
(* AddressGeocoder *)

Fields == <<"street_line_1", "city", "state", "zip", "country_code">>

Part_Mutant(rec, f) ==
    LET v == rec[f]
    IN  IF v # None /\ v[1] # <<>>
        THEN <<IF f = "country_code" THEN upper(strip(v[1])) ELSE strip(v[1])>>
        ELSE <<>>

\* One field of _format_address: the `if address_data.get(f)` block
Part(rec, f) ==
    LET v == rec[f]
    IN  IF v # None /\ v[1] # <<>>
        THEN LET text == IF f = "country_code" THEN upper(strip(v[1])) ELSE strip(v[1])
             IN  IF text # <<>> THEN <<text>> ELSE <<>>
        ELSE <<>>

_format_address(rec) ==
    LET address_parts == Part(rec, "street_line_1") \o Part(rec, "city")
                         \o Part(rec, "state") \o Part(rec, "zip")
                         \o Part(rec, "country_code")
    IN  join(<<",", " ">>, address_parts)

sleep_time_Mutant(time_since_last_request) ==
    IF time_since_last_request < REQUEST_DELAY THEN time_since_last_request ELSE 0

sleep_time(time_since_last_request) ==
    IF time_since_last_request < REQUEST_DELAY
    THEN REQUEST_DELAY - time_since_last_request
    ELSE 0

_rate_limit_Mutant(current_time, last) == current_time + REQUEST_DELAY

\* _rate_limit: the time at which it returns, which it stores in last_request_time
_rate_limit(current_time, last) == current_time + sleep_time(current_time - last)

Transient == {"Timeout", "ServiceError"}

Outcomes == {"Location", "NotFound", "QuotaExceeded", "Timeout", "ServiceError", "Other"}

Message(outcome) ==
    IF outcome = "Timeout" THEN "Service timed out"
    ELSE IF outcome = "ServiceError" THEN "Service error" ELSE "boom"

\* geocoder.geocode returned (a Location or None) instead of raising
Returned(outcome) == outcome \in {"Location", "NotFound"}

Retries_Mutant(n) == n < MAX_RETRIES

\* if attempt < MAX_RETRIES - 1: sleep and go round the loop again
Retries(n) == n < MAX_RETRIES - 1

IterationResult_Mutant(n, outcome, location) ==
    IF outcome = "Location" THEN Some(LocationResult(location))
    ELSE IF outcome = "NotFound" THEN Some(ErrorResult(<<"Location not found">>))
    ELSE IF outcome \in Transient \cup {"QuotaExceeded"}
    THEN IF Retries(n) THEN None
         ELSE Some(ErrorResult(<<"Failed after ", str_int(MAX_RETRIES), " attempts: ", Message(outcome)>>))
    ELSE Some(ErrorResult(<<"Unexpected error: ", Message(outcome)>>))

\* The result one iteration of the loop of _geocode_with_retry returns, or None
\* when the iteration ends without returning.
IterationResult(n, outcome, location) ==
    IF outcome = "Location" THEN Some(LocationResult(location))
    ELSE IF outcome = "NotFound" THEN Some(ErrorResult(<<"Location not found">>))
    ELSE IF outcome = "QuotaExceeded" THEN Some(ErrorResult(<<"Quota exceeded">>))
    ELSE IF outcome \in Transient
    THEN IF Retries(n) THEN None
         ELSE Some(ErrorResult(<<"Failed after ", str_int(MAX_RETRIES), " attempts: ", Message(outcome)>>))
    ELSE Some(ErrorResult(<<"Unexpected error: ", Message(outcome)>>))

next_attempt_Mutant(n) == n

\* for attempt in range(MAX_RETRIES)
next_attempt(n) == n + 1

\* What _geocode_with_retry returns at the end of the iteration, None when
\* it goes on to a further iteration.
RetryResult(n, outcome, location) ==
    LET r == IterationResult(n, outcome, location)
    IN  IF r # None THEN r
        ELSE IF next_attempt(n) < MAX_RETRIES THEN None
        ELSE Some(ErrorResult(<<"Max retries exceeded">>))

backoff_Mutant(n) == RETRY_DELAY

\* time.sleep(RETRY_DELAY * (attempt + 1)) after a transient failure
backoff(n) == RETRY_DELAY * (n + 1)

\* One iteration of the loop of _geocode_with_retry: _rate_limit, the call
\* of geocoder.geocode taking `duration`, and the handling of its outcome.
RetryStep(outcome, location, duration) ==
    LET start == _rate_limit(now, last_request_time)
        end == start + duration
    IN  /\ attempt < MAX_RETRIES
        /\ last_request_time' = start
        /\ request_count' = IF Returned(outcome) THEN request_count + 1 ELSE request_count
        /\ IF IterationResult(attempt, outcome, location) = None
           THEN /\ now' = end + backoff(attempt)
                /\ attempt' = next_attempt(attempt)
           ELSE /\ now' = end
                /\ UNCHANGED attempt

\* The record of the iteration RetryStep takes: when the attempt started
\* and ended, how long _rate_limit and the backoff slept, the outcome.
AttemptHist(outcome, duration) ==
    [hist EXCEPT !.calls = @ + 1, !.attempts = @ + 1,
                 !.lastStart = last_request_time', !.lastEnd = last_request_time' + duration,
                 !.gapFromEnd = last_request_time' - hist.lastEnd,
                 !.gapFromStart = last_request_time' - hist.lastStart,
                 !.elapsed = now - last_request_time,
                 !.waited = last_request_time' - now,
                 !.lastOutcome = outcome,
                 !.transients = IF outcome \in Transient THEN @ + 1 ELSE @,
                 !.sleeps = IF now' = last_request_time' + duration
                            THEN @ ELSE Append(@, now' - (last_request_time' + duration))]

\* The record of the write of the cache file the step made, if it made one.
SaveHist(h) ==
    [h EXCEPT !.persisted = IF save_log' = "info" THEN cache_data' ELSE @,
              !.saveFailed = @ \/ save_log' = "error"]

ShouldCache_Mutant(r) == TRUE

ShouldCache(r) == r.error = None

----------------------------------------------------------------------------
(* Inputs of a run *)

FieldNames == {Fields[i] : i \in 1..Len(Fields)}

FieldValues(f) ==
    IF f = "street_line_1" THEN {None, Some(<<" ">>), Some(<<"a", " ">>)}
    ELSE IF f = "city" THEN {None, Some(<<" ">>)}
    ELSE IF f = "country_code" THEN {None, Some(<<"a">>)}
    ELSE {None}

Texts == {None, Some(<<>>), Some(<<" ">>), Some(<<"a">>), Some(<<"a", " ">>), Some(<<" ", "B">>)}

Records == { rec \in [FieldNames -> Texts] : \A f \in FieldNames : rec[f] \in FieldValues(f) }

Durations == {1, 12}

RunDurations == {1}

London == CHOOSE l \in Locations : l.address = "London"

RunFiles == {NoFile, JsonFile(Put(EmptyDict, _generate_cache_key(<<"a">>), StoredEntry(LocationResult(London))))}

Snapshot ==
    [cache_data |-> cache_data, dirty_count |-> dirty_count, is_dirty |-> is_dirty,
     disk |-> disk, request_count |-> request_count,
     last_request_time |-> last_request_time]

InitHist ==
    [before |-> Snapshot, gets |-> 0, gets_before |-> 0, calls |-> 0, calls_before |-> 0,
     attempts |-> 0, lastStart |-> 0, lastEnd |-> 0, gapFromEnd |-> 0,
     gapFromStart |-> 0, flushes |-> 0, resolves |-> 0,
     elapsed |-> 0, waited |-> 0, lastOutcome |-> "none", sleeps |-> <<>>,
     transients |-> 0, input |-> <<>>, persisted |-> cache_data, saveFailed |-> FALSE]

----------------------------------------------------------------------------
(* One run of main(), from the construction of AddressGeocoder on *)

Init ==
    /\ disk \in RunFiles
    /\ cache_data = _load_cache(disk)
    /\ dirty_count = 0
    /\ is_dirty = FALSE
    /\ save_log = "none"
    /\ last_request_time = 0
    /\ request_count = 0
    /\ now = StartTime
    /\ pc = "loop"
    /\ attempt = 0
    /\ address_data = NoRecord
    /\ formatted_address = <<>>
    /\ result = None
    /\ processed_addresses = <<>>
    /\ op = NoOp
    /\ setRun = 0
    /\ flushWrites = 0
    /\ hist = InitHist

Append_result_Mutant(rec, r) ==
    processed_addresses' = IF r.error = None
                           THEN Append(processed_addresses, [address |-> rec, geocoding |-> r])
                           ELSE processed_addresses

\* process_addresses: result_data.update(...), processed_addresses.append(...)
Append_result(rec, r) ==
    processed_addresses' = Append(processed_addresses, [address |-> rec, geocoding |-> r])

\* geocode_address up to the call of _geocode_with_retry
BeginRecord(rec) ==
    /\ pc = "loop"
    /\ address_data' = rec
    /\ formatted_address' = _format_address(rec)
    /\ op' = [name |-> "geocode_address", q |-> formatted_address', r |-> None]
    /\ IF strip(formatted_address') = <<>>
       THEN /\ result' = Some(ErrorResult(<<"Empty or invalid address">>))
            /\ Append_result(rec, result'[1])
            /\ hist' = [hist EXCEPT !.before = Snapshot, !.gets_before = hist.gets,
                                    !.calls_before = hist.calls, !.attempts = 0,
                                    !.input = Append(@, rec), !.lastOutcome = "none", !.transients = 0,
                                    !.sleeps = <<>>]
            /\ UNCHANGED <<pc, attempt>>
       ELSE LET cached_result == get(Cache, formatted_address')
            IN  /\ hist' = [hist EXCEPT !.before = Snapshot, !.gets_before = hist.gets,
                                        !.calls_before = hist.calls, !.attempts = 0,
                                        !.input = Append(@, rec), !.lastOutcome = "none", !.transients = 0,
                                        !.sleeps = <<>>, !.gets = @ + 1]
                /\ IF cached_result # None
                   THEN /\ result' = cached_result
                        /\ Append_result(rec, result'[1])
                        /\ UNCHANGED <<pc, attempt>>
                   ELSE IF 0 < MAX_RETRIES
                   THEN /\ pc' = "retry"
                        /\ attempt' = 0
                        /\ UNCHANGED <<result, processed_addresses>>
                   ELSE /\ result' = Some(ErrorResult(<<"Max retries exceeded">>))
                        /\ Append_result(rec, result'[1])
                        /\ UNCHANGED <<pc, attempt>>
    /\ UNCHANGED <<cacheVars, last_request_time, request_count, now, setRun, flushWrites>>

\* One iteration of the loop of _geocode_with_retry and, when it returns, the
\* rest of geocode_address and of the iteration of process_addresses.
Attempt(outcome, location, duration, io) ==
    /\ pc = "retry"
    /\ RetryStep(outcome, location, duration)
    /\ LET r == RetryResult(attempt, outcome, location)
       IN  IF r = None
           THEN UNCHANGED <<pc, result, processed_addresses, cacheVars, setRun, flushWrites>>
           ELSE /\ pc' = "loop"
                /\ IF ShouldCache(r[1])
                   THEN /\ SetCache(set(Quiet(Cache), formatted_address, r[1], io))
                        /\ result' = Some(StoredEntry(r[1]))
                        /\ setRun' = IF dirty_count = 0 THEN 1
                                     ELSE IF setRun = Broken THEN Broken ELSE setRun + 1
                        /\ flushWrites' = 0
                   ELSE /\ result' = r
                        /\ UNCHANGED <<cacheVars, setRun, flushWrites>>
                /\ Append_result(address_data, result'[1])
    /\ hist' = SaveHist(AttemptHist(outcome, duration))
    /\ UNCHANGED <<address_data, formatted_address, op>>

\* process_addresses returns: the input list is exhausted
EndBatch ==
    /\ pc = "loop"
    /\ pc' = "save_results"
    /\ UNCHANGED <<cacheVars, clientVars, address_data, formatted_address, result,
                   processed_addresses, op, setRun, flushWrites, hist>>

\* save_results: an IOError is re-raised and main returns 1
SaveResults(io) ==
    /\ pc = "save_results"
    /\ pc' = IF io = "ok" THEN "force_save" ELSE "exit1"
    /\ UNCHANGED <<cacheVars, clientVars, address_data, formatted_address, result,
                   processed_addresses, op, setRun, flushWrites, hist>>

\* geocoder.cache.force_save() in main
ForceSave(io) ==
    /\ pc = "force_save"
    /\ SetCache(force_save(Quiet(Cache), io))
    /\ op' = [name |-> "force_save", q |-> <<>>, r |-> None]
    /\ hist' = SaveHist([hist EXCEPT !.flushes = @ + 1])
    /\ setRun' = Broken
    /\ flushWrites' = flushWrites + (IF save_log' = "info" THEN 1 ELSE 0)
    /\ pc' = "summary"
    /\ UNCHANGED <<clientVars, address_data, formatted_address, result, processed_addresses>>

\* the summary divides by len(results)
Summary ==
    /\ pc = "summary"
    /\ pc' = IF Len(processed_addresses) = 0 THEN "exit1" ELSE "exit0"
    /\ UNCHANGED <<cacheVars, clientVars, address_data, formatted_address, result,
                   processed_addresses, op, setRun, flushWrites, hist>>

Next ==
    \/ \E rec \in Records : Len(processed_addresses) < MaxRecords /\ BeginRecord(rec)
    \/ \E outcome \in Outcomes, duration \in RunDurations, io \in IoOutcomes :
          Attempt(outcome, London, duration, io)
    \/ EndBatch
    \/ \E io \in {"ok", "write_fails"} : SaveResults(io)
    \/ \E io \in IoOutcomes : ForceSave(io)
    \/ Summary

Spec == Init /\ [][Next]_vars

----------------------------------------------------------------------------
(* A run of main() over a list long enough for set to reach BATCH_SIZE:    *)
(* MaxBatch records, the addresses of the first BATCH_SIZE + 1 all         *)
(* different and those after them the first ones again.  The provider may  *)
(* fail on the records at the positions FlakyAt; every write of the cache  *)
(* file may fail.                                                          *)

Street(n) == [j \in 1..n |-> "a"]

BatchRecord(n) ==
    [f \in FieldNames |-> IF f = "street_line_1" THEN Some(Street(n))
                          ELSE IF f = "country_code" THEN Some(<<"a">>)
                          ELSE None]

\* addresses, the list load_addresses returned
BatchAddresses == [i \in 1..MaxBatch |-> BatchRecord(((i - 1) % (BATCH_SIZE + 1)) + 1)]

FlakyAt == {1, BATCH_SIZE}

BatchOutcomes(i) == IF i \in FlakyAt THEN Outcomes ELSE {"Location"}

BatchNext ==
    \/ /\ Len(processed_addresses) < Len(BatchAddresses)
       /\ BeginRecord(BatchAddresses[Len(processed_addresses) + 1])
    \/ \E outcome \in BatchOutcomes(Len(processed_addresses) + 1), io \in IoOutcomes :
          Attempt(outcome, London, 1, io)
    \/ /\ Len(processed_addresses) = Len(BatchAddresses)
       /\ EndBatch
    \/ \E io \in {"ok", "write_fails"} : SaveResults(io)
    \/ \E io \in IoOutcomes : ForceSave(io)
    \/ Summary

BatchSpec == Init /\ [][BatchNext]_vars

----------------------------------------------------------------------------
(* The retry client driven by an arbitrary caller: any sequence of         *)
(* _geocode_with_retry calls, the provider answering each attempt with any *)
(* outcome after any of the durations, the caller pausing between calls.   *)

Pauses == {0, 5}

ClientInit ==
    /\ disk = NoFile
    /\ cache_data = _load_cache(disk)
    /\ dirty_count = 0
    /\ is_dirty = FALSE
    /\ save_log = "none"
    /\ last_request_time = 0
    /\ request_count = 0
    /\ now = StartTime
    /\ pc = "caller"
    /\ attempt = 0
    /\ address_data = NoRecord
    /\ formatted_address = <<>>
    /\ result = None
    /\ processed_addresses = <<>>
    /\ op = NoOp
    /\ setRun = 0
    /\ flushWrites = 0
    /\ hist = InitHist

\* _geocode_with_retry(q) is called: the loop is entered, or skipped when
\* range(MAX_RETRIES) is empty
CallGeocodeWithRetry(pause) ==
    /\ pc = "caller"
    /\ hist.resolves < MaxCalls
    /\ now' = now + pause
    /\ op' = [name |-> "_geocode_with_retry", q |-> <<"a">>, r |-> None]
    /\ hist' = [hist EXCEPT !.attempts = 0, !.resolves = @ + 1,
                            !.lastOutcome = "none", !.transients = 0, !.sleeps = <<>>]
    /\ attempt' = 0
    /\ IF 0 < MAX_RETRIES
       THEN pc' = "in_retry" /\ result' = None
       ELSE pc' = "caller" /\ result' = Some(ErrorResult(<<"Max retries exceeded">>))
    /\ UNCHANGED <<cacheVars, last_request_time, request_count, address_data,
                   formatted_address, processed_addresses, setRun, flushWrites>>

ClientAttempt(outcome, location, duration) ==
    /\ pc = "in_retry"
    /\ RetryStep(outcome, location, duration)
    /\ hist' = AttemptHist(outcome, duration)
    /\ result' = RetryResult(attempt, outcome, location)
    /\ pc' = IF result' = None THEN "in_retry" ELSE "caller"
    /\ UNCHANGED <<cacheVars, address_data, formatted_address, processed_addresses,
                   op, setRun, flushWrites>>

ClientNext ==
    \/ \E pause \in Pauses : CallGeocodeWithRetry(pause)
    \/ \E outcome \in Outcomes, location \in Locations, duration \in Durations :
          ClientAttempt(outcome, location, duration)

ClientSpec == ClientInit /\ [][ClientNext]_vars

----------------------------------------------------------------------------
(* The cache driven by an arbitrary client: any sequence of get, set and   *)
(* force_save, each write of the cache file succeeding or failing.         *)

CacheInit ==
    /\ disk \in RunFiles
    /\ cache_data = _load_cache(disk)
    /\ dirty_count = 0
    /\ is_dirty = FALSE
    /\ save_log = "none"
    /\ last_request_time = 0
    /\ request_count = 0
    /\ now = StartTime
    /\ pc = "client"
    /\ attempt = 0
    /\ address_data = NoRecord
    /\ formatted_address = <<>>
    /\ result = None
    /\ processed_addresses = <<>>
    /\ op = NoOp
    /\ setRun = 0
    /\ flushWrites = 0
    /\ hist = InitHist

CallGet(q) ==
    /\ pc = "client"
    /\ result' = get(Cache, q)
    /\ op' = [name |-> "get", q |-> q, r |-> None]
    /\ UNCHANGED <<cacheVars, clientVars, runVars, setRun, flushWrites, hist>>

CallSet(q, r, io) ==
    /\ pc = "client"
    /\ dirty_count < MaxDirty
    /\ SetCache(set(Quiet(Cache), q, r, io))
    /\ op' = [name |-> "set", q |-> q, r |-> Some(r)]
    /\ setRun' = IF dirty_count = 0 THEN 1
                 ELSE IF setRun = Broken THEN Broken ELSE setRun + 1
    /\ flushWrites' = 0
    /\ UNCHANGED <<clientVars, runVars, result, hist>>

CallForceSave(io) ==
    /\ pc = "client"
    /\ SetCache(force_save(Quiet(Cache), io))
    /\ op' = [name |-> "force_save", q |-> <<>>, r |-> None]
    /\ setRun' = Broken
    /\ flushWrites' = flushWrites + (IF save_log' = "info" THEN 1 ELSE 0)
    /\ UNCHANGED <<clientVars, runVars, result, hist>>

CacheNext ==
    \/ \E q \in Queries : CallGet(q)
    \/ \E q \in Queries, r \in SuccessResults, io \in IoOutcomes : CallSet(q, r, io)
    \/ \E io \in IoOutcomes : CallForceSave(io)

CacheSpec == CacheInit /\ [][CacheNext]_vars

----------------------------------------------------------------------------
(* Properties of a run, checked under Spec *)

\* No recognized field of the record is non-blank after trimming.
Blank(rec) == \A f \in FieldNames : rec[f] = None \/ strip(rec[f][1]) = <<>>

BlankTexts == {None, Some(<<>>), Some(<<" ">>), Some(<<" ", " ">>)}

Returned_from_geocode_address == pc = "loop" /\ op.name = "geocode_address"

\* C1: while geocode_address is in its retry loop, and when it has returned
\* a result whose error is set, cache_data, dirty_count and is_dirty are
\* what they were when it was called, and get of the formatted query
\* returns None.
C1_FailuresNeverCached ==
    LET same == /\ cache_data = hist.before.cache_data
                /\ dirty_count = hist.before.dirty_count
                /\ is_dirty = hist.before.is_dirty
    IN  /\ pc = "retry" => same
        /\ (Returned_from_geocode_address /\ result[1].error # None) =>
               same /\ get(Cache, formatted_address) = None

\* A lookup that failed after MAX_RETRIES transient failures, in a run
\* that had cached a success before.
C1_Witness ==
    /\ Returned_from_geocode_address
    /\ result[1].error = Some(<<"Failed after ", "3", " attempts: ", "Service timed out">>)
    /\ dirty_count = 1
    /\ Len(processed_addresses) = 2

\* C7 as stated: a run that has completed the batch and ended has called
\* force_save exactly once.
C7_FlushedOnceAfterBatch == pc \in {"exit0", "exit1"} => hist.flushes = 1

\* C9: geocode_address of a record with no non-blank recognized field
\* returns the error "Empty or invalid address" and has made no cache.get,
\* no cache write and no external attempt: cache, file, request_count and
\* last_request_time are as at the call.  The formatter gives the empty
\* query for every record whose five fields are absent, empty or blank.
C9_BlankRecordRejected ==
    /\ (Returned_from_geocode_address /\ Blank(address_data)) =>
            /\ result = Some(ErrorResult(<<"Empty or invalid address">>))
            /\ Snapshot = hist.before
            /\ hist.gets = hist.gets_before
            /\ hist.calls = hist.calls_before
    /\ processed_addresses = <<>> =>
            \A rec \in [FieldNames -> BlankTexts] : strip(_format_address(rec)) = <<>>

\* A record of two blank fields rejected after a record that was geocoded.
C9_Witness ==
    /\ Returned_from_geocode_address
    /\ address_data["street_line_1"] = Some(<<" ">>)
    /\ address_data["city"] = Some(<<" ">>)
    /\ result[1].error = Some(<<"Empty or invalid address">>)
    /\ request_count = 1
    /\ hist.gets = 1

\* The query of the current record was a key of the mapping when
\* geocode_address was called.
WasCached ==
    /\ strip(formatted_address) # <<>>
    /\ _generate_cache_key(formatted_address) \in DOMAIN hist.before.cache_data

\* C11: when geocode_address returns for a query whose key was in the
\* mapping at the call, the result carries the entry's latitude, longitude
\* and formatted_address with cached = true, no external attempt was made
\* (request_count and last_request_time as at the call), and cache_data,
\* dirty_count, is_dirty and the cache file are as at the call.
C11_CacheHitIsFree ==
    (Returned_from_geocode_address /\ WasCached) =>
        LET entry == hist.before.cache_data[_generate_cache_key(formatted_address)]
        IN  /\ result # None
            /\ result[1].cached = TRUE
            /\ result[1].latitude = entry.latitude
            /\ result[1].longitude = entry.longitude
            /\ result[1].formatted_address = entry.formatted_address
            /\ result[1].error = entry.error
            /\ hist.calls = hist.calls_before
            /\ hist.gets = hist.gets_before + 1
            /\ Snapshot = hist.before

\* A hit on the entry the record before it, written differently, stored
\* in this run.
C11_Witness ==
    /\ Returned_from_geocode_address
    /\ WasCached
    /\ Len(processed_addresses) = 2
    /\ processed_addresses[1].address # processed_addresses[2].address
    /\ processed_addresses[1].geocoding.cached = FALSE
    /\ processed_addresses[2].geocoding.cached = TRUE
    /\ dirty_count = 1

Success_or_failure(r) ==
    \/ r.latitude # None /\ r.longitude # None /\ r.error = None
    \/ r.error # None /\ r.latitude = None /\ r.longitude = None

\* C13: the GeocodeResult geocode_address returns (for a blank record, from
\* a fresh lookup, from a cache hit) has either latitude and longitude and
\* no error, or an error and neither latitude nor longitude; so has every
\* result in processed_addresses and every entry of the mapping.
C13_SuccessXorFailure ==
    /\ Returned_from_geocode_address => Success_or_failure(result[1])
    /\ \A i \in 1..Len(processed_addresses) : Success_or_failure(processed_addresses[i].geocoding)
    /\ \A k \in DOMAIN cache_data : Success_or_failure(cache_data[k])

\* A blank record rejected, then a hit on an entry of the cache file.
C13_Witness ==
    /\ Returned_from_geocode_address
    /\ Len(processed_addresses) = 2
    /\ processed_addresses[1].geocoding.error = Some(<<"Empty or invalid address">>)
    /\ processed_addresses[1].geocoding.latitude = None
    /\ processed_addresses[2].geocoding.cached = TRUE
    /\ processed_addresses[2].geocoding.latitude # None
    /\ processed_addresses[2].geocoding.error = None
    /\ request_count = 0

\* C14 as stated: when the run has ended, request_count is the number of
\* calls of geocoder.geocode the run made, whatever their outcomes.
C14_RequestCountIsAttempts == pc \in {"exit0", "exit1"} => request_count = hist.calls

----------------------------------------------------------------------------
(* Properties of a run that reaches the batch threshold, checked under     *)
(* BatchSpec                                                               *)

\* The keys whose entry in memory is not in the cache file.
Unsaved == {k \in DOMAIN cache_data : k \notin DOMAIN disk.data \/ disk.data[k] # cache_data[k]}

\* C17: as long as no write of the cache file has failed in the run,
\* dirty_count is below BATCH_SIZE whenever the program is between two
\* operations (so after every set), at most BATCH_SIZE - 1 entries of the
\* mapping are missing from the cache file, and no step removes or changes
\* an entry of the cache file.
C17_BoundedLoss ==
    /\ [](~hist.saveFailed => dirty_count < BATCH_SIZE)
    /\ [](~hist.saveFailed => Cardinality(Unsaved) <= BATCH_SIZE - 1)
    /\ [](~hist.saveFailed => Cardinality(Unsaved) <= dirty_count)
    /\ [][~hist'.saveFailed =>
            \A k \in DOMAIN disk.data :
                k \in DOMAIN disk'.data /\ disk'.data[k] = disk.data[k]]_vars

\* The set after the one that wrote the batch: one entry in memory only,
\* BATCH_SIZE entries and the one the run started with in the file.
C17_Witness ==
    /\ Returned_from_geocode_address
    /\ ~hist.saveFailed
    /\ dirty_count = 1
    /\ Cardinality(Unsaved) = 1
    /\ Cardinality(DOMAIN disk.data) = BATCH_SIZE + 1
    /\ hist.persisted = disk.data

\* C18: geocode_address changes the mapping only by adding an entry under
\* the key of its query, which was not a key before; no step removes an
\* entry or changes its value; and dirty_count is the number of keys of
\* the mapping that are not keys of the mapping last written to the cache
\* file with success (at the start: the mapping loaded from it).
C18_NeverOverwrites ==
    /\ [](dirty_count = Cardinality(DOMAIN cache_data \ DOMAIN hist.persisted))
    /\ [][\A k \in DOMAIN cache_data :
            k \in DOMAIN cache_data' /\ cache_data'[k] = cache_data[k]]_vars
    /\ [][dirty_count' > dirty_count =>
            LET k == _generate_cache_key(formatted_address)
            IN  k \notin DOMAIN cache_data /\ DOMAIN cache_data' = DOMAIN cache_data \cup {k}]_vars

\* The address of the first record, whose lookup had failed, is looked up
\* again at the end of the list and stored, after the write of the batch
\* had failed: BATCH_SIZE + 1 keys are not in the mapping last written.
C18_Witness ==
    /\ Returned_from_geocode_address
    /\ Len(processed_addresses) = MaxBatch
    /\ processed_addresses[1].geocoding.error # None
    /\ processed_addresses[MaxBatch].geocoding.error = None
    /\ processed_addresses[MaxBatch].geocoding.cached = FALSE
    /\ hist.saveFailed
    /\ dirty_count = BATCH_SIZE + 1

----------------------------------------------------------------------------
(* Properties of the retry client, checked under ClientSpec *)

\* C2: one call of _geocode_with_retry makes at least one and at most
\* MAX_RETRIES calls of geocoder.geocode and returns a GeocodeResult: in
\* the loop attempt < MAX_RETRIES and an iteration is always possible, and
\* every iteration either returns or increases attempt by one.
C2_AttemptsBoundedAndTerminates ==
    /\ [](hist.attempts <= MAX_RETRIES)
    /\ [](pc = "in_retry" => attempt < MAX_RETRIES /\ hist.attempts = attempt /\ ENABLED ClientNext)
    /\ []((pc = "caller" /\ op.name = "_geocode_with_retry") =>
            /\ hist.attempts >= 1
            /\ result # None
            /\ DOMAIN result[1] = DOMAIN ErrorResult(<<>>))
    /\ [][(pc = "in_retry" /\ pc' = "in_retry") => attempt' = attempt + 1]_vars

\* A call that returned after MAX_RETRIES attempts.
C2_Witness ==
    /\ pc = "caller"
    /\ hist.attempts = MAX_RETRIES
    /\ result[1].error = Some(<<"Failed after ", "3", " attempts: ", "Service error">>)

\* C3 as stated: an attempt never starts less than REQUEST_DELAY after the
\* end of the attempt before it.
C3_SpacingFromEnd == hist.calls >= 2 => hist.gapFromEnd >= REQUEST_DELAY

\* C3 amended: an attempt never starts less than REQUEST_DELAY after the
\* start of the attempt before it, within a call and across calls; from the
\* end of the attempt before it the distance is at least REQUEST_DELAY
\* less that attempt's duration, and never negative.
C3_SpacingFromStart ==
    hist.calls >= 2 =>
        /\ hist.gapFromStart >= REQUEST_DELAY
        /\ hist.gapFromEnd >= 0

\* The first attempt of a later call starts the moment the attempt before
\* it, which lasted longer than REQUEST_DELAY, ended.
C3_Witness ==
    /\ hist.calls >= 2
    /\ hist.attempts = 1
    /\ hist.gapFromEnd = 0
    /\ hist.gapFromStart > REQUEST_DELAY

\* _geocode_with_retry has returned to its caller.
Returned_from_geocode_with_retry == pc = "caller" /\ op.name = "_geocode_with_retry"

\* RETRY_DELAY, 2 * RETRY_DELAY, ..., k * RETRY_DELAY
Schedule(k) == [i \in 1..k |-> RETRY_DELAY * i]

\* C15: a call whose attempts before the last all ended in Timeout or
\* ServiceError and whose last attempt returned a Location made k + 1
\* attempts for k < MAX_RETRIES transient failures, returned the successful
\* result and slept RETRY_DELAY * i after the i-th failed attempt; a call
\* whose MAX_RETRIES attempts all failed transiently returned the error
\* naming MAX_RETRIES and that failure, having slept after every failed
\* attempt but the last; while the loop runs, every attempt so far failed
\* transiently and was followed by its sleep.
C15_RetrySchedule ==
    /\ (Returned_from_geocode_with_retry /\ hist.lastOutcome = "Location") =>
            /\ hist.transients < MAX_RETRIES
            /\ hist.attempts = hist.transients + 1
            /\ result[1].error = None
            /\ result[1].latitude # None /\ result[1].longitude # None
            /\ hist.sleeps = Schedule(hist.transients)
            /\ now = hist.lastEnd
    /\ (Returned_from_geocode_with_retry /\ hist.transients = MAX_RETRIES) =>
            /\ hist.attempts = MAX_RETRIES
            /\ result[1].error = Some(<<"Failed after ", str_int(MAX_RETRIES), " attempts: ",
                                        Message(hist.lastOutcome)>>)
            /\ hist.sleeps = Schedule(MAX_RETRIES - 1)
            /\ now = hist.lastEnd
    /\ (pc = "in_retry" /\ hist.attempts > 0) =>
            /\ hist.transients = hist.attempts
            /\ hist.sleeps = Schedule(hist.attempts)
            /\ now = hist.lastEnd + RETRY_DELAY * hist.attempts

\* A Location on the last allowed attempt, after two transient failures
\* and sleeps of RETRY_DELAY and 2 * RETRY_DELAY.
C15_Witness ==
    /\ Returned_from_geocode_with_retry
    /\ hist.lastOutcome = "Location"
    /\ hist.transients = 2
    /\ hist.sleeps = <<20, 40>>
    /\ result[1].error = None

Terminal == {"NotFound", "QuotaExceeded", "Other"}

TerminalError(outcome) ==
    IF outcome = "NotFound" THEN <<"Location not found">>
    ELSE IF outcome = "QuotaExceeded" THEN <<"Quota exceeded">>
    ELSE <<"Unexpected error: ", Message(outcome)>>

\* C16: an attempt that ended in NotFound, QuotaExceeded or an exception
\* that is neither a timeout nor a service error is the last attempt of its
\* call: the call has returned, with the error "Location not found",
\* "Quota exceeded" or "Unexpected error: " and the exception's text, the
\* attempts before it all failed transiently, and no sleep followed it.
C16_TerminalNeverRetried ==
    hist.lastOutcome \in Terminal =>
        /\ Returned_from_geocode_with_retry
        /\ result = Some(ErrorResult(TerminalError(hist.lastOutcome)))
        /\ hist.attempts = hist.transients + 1
        /\ Len(hist.sleeps) = hist.transients
        /\ now = hist.lastEnd

\* Quota exceeded on the second attempt of a call, after one timed out.
C16_Witness ==
    /\ Returned_from_geocode_with_retry
    /\ hist.lastOutcome = "QuotaExceeded"
    /\ hist.attempts = 2
    /\ hist.sleeps = <<20>>
    /\ result[1].error = Some(<<"Quota exceeded">>)

\* C19: _rate_limit slept before the latest attempt exactly when less than
\* REQUEST_DELAY had passed since the start of the attempt before it, and
\* then for the remainder of REQUEST_DELAY; the attempt started that long
\* after _rate_limit was entered, so never less than REQUEST_DELAY after
\* the start of the attempt before it, and last_request_time is its start.
C19_PacedFromStartSleepsOnlyWhenEarly ==
    hist.calls >= 1 =>
        /\ hist.waited >= 0
        /\ hist.waited > 0 <=> hist.elapsed < REQUEST_DELAY
        /\ hist.waited > 0 => hist.waited = REQUEST_DELAY - hist.elapsed
        /\ last_request_time = hist.lastStart
        /\ hist.calls >= 2 =>
                /\ hist.gapFromStart = hist.elapsed + hist.waited
                /\ hist.gapFromStart >= REQUEST_DELAY

\* The first attempt of a later call, entered 6 tenths of a second after
\* the start of the attempt before it, slept the remaining 5.
C19_Witness ==
    /\ hist.calls >= 2
    /\ hist.attempts = 1
    /\ hist.elapsed = 6
    /\ hist.waited = 5
    /\ hist.gapFromStart = REQUEST_DELAY

----------------------------------------------------------------------------
(* Properties of GeocodeCache, checked under CacheSpec *)

\* C4: in every reachable state of the cache, whatever get, set and
\* force_save calls were made and whichever writes of the file failed,
\* is_dirty is true exactly when dirty_count > 0.
C4_DirtyIffUnsaved == is_dirty <=> dirty_count > 0

\* A set whose batch write failed: the cache stays dirty past the threshold.
C4_Witness == op.name = "set" /\ save_log = "error" /\ is_dirty /\ dirty_count > BATCH_SIZE

\* C5: a failed _save_cache leaves cache_data, dirty_count and is_dirty as
\* they were when the write was attempted (for force_save: as before the
\* call; for set: the mapping with the new entry, the counter incremented,
\* the flag set), and control returns to the caller; whenever a write then
\* succeeds, the file holds the whole mapping, dirty_count is 0 and
\* is_dirty is false.
C5_FailedSaveKeepsDirtyState ==
    /\ [][(op'.name = "force_save" /\ save_log' = "error")
            => UNCHANGED <<cache_data, dirty_count, is_dirty, pc>>]_vars
    /\ [][(op'.name = "set" /\ save_log' = "error")
            => LET k == _generate_cache_key(op'.q)
               IN  /\ DOMAIN cache_data' = DOMAIN cache_data \cup {k}
                   /\ \A x \in DOMAIN cache_data \ {k} : cache_data'[x] = cache_data[x]
                   /\ cache_data'[k].latitude = op'.r[1].latitude
                   /\ dirty_count' = dirty_count + 1
                   /\ is_dirty'
                   /\ pc' = pc]_vars
    /\ [](save_log = "info" => disk = JsonFile(cache_data) /\ dirty_count = 0 /\ ~is_dirty)

\* A set whose write succeeds after the writes of earlier sets failed.
C5_Witness == op.name = "set" /\ save_log = "info" /\ setRun > BATCH_SIZE /\ disk = JsonFile(cache_data)

\* C6 as stated: after exactly BATCH_SIZE set calls from a clean cache with
\* no force_save, the file equals the mapping, dirty_count is 0 and
\* is_dirty is false.
C6_BatchAlwaysPersisted ==
    setRun = BATCH_SIZE => disk = JsonFile(cache_data) /\ dirty_count = 0 /\ ~is_dirty

\* C6 amended: the BATCH_SIZE-th set from a clean cache always calls
\* _save_cache; if that write succeeds the file equals the mapping,
\* dirty_count is 0 and is_dirty is false; if it fails dirty_count stays
\* BATCH_SIZE and is_dirty stays true.
C6_BatchPersistedIfWriteSucceeds ==
    setRun = BATCH_SIZE =>
        /\ save_log # "none"
        /\ save_log = "info" => disk = JsonFile(cache_data) /\ dirty_count = 0 /\ ~is_dirty
        /\ save_log = "error" => dirty_count = BATCH_SIZE /\ is_dirty

\* The BATCH_SIZE-th set wrote a mapping of two entries.
C6_Witness ==
    /\ setRun = BATCH_SIZE
    /\ save_log = "info"
    /\ Cardinality(DOMAIN cache_data) = 2
    /\ disk = JsonFile(cache_data)

\* C8: between two set calls the force_save calls complete at most one
\* write of the cache file, and a force_save on a cache that is not dirty
\* does not call _save_cache and changes nothing.
C8_ForceSaveIdempotent ==
    /\ [](flushWrites <= 1)
    /\ [][(op'.name = "force_save" /\ ~is_dirty)
            => UNCHANGED <<cache_data, dirty_count, is_dirty, disk>> /\ save_log' = "none"]_vars

\* A force_save that wrote, followed by a force_save that did nothing.
C8_Witness == op.name = "force_save" /\ flushWrites = 1 /\ save_log = "none" /\ ~is_dirty

\* C10: right after set(q, r), get(q2) for every q2 with the same
\* lower-cased, trimmed text returns r's latitude, longitude and
\* formatted_address with cached = true, while the stored entry has
\* cached = false.
C10_SetGetRoundTrip ==
    op.name = "set" =>
        \A q2 \in Queries :
            strip(lower(q2)) = strip(lower(op.q)) =>
                LET g == get(Cache, q2)
                    r == op.r[1]
                IN  /\ g # None
                    /\ g[1].latitude = r.latitude
                    /\ g[1].longitude = r.longitude
                    /\ g[1].formatted_address = r.formatted_address
                    /\ g[1].cached = TRUE
                    /\ cache_data[_generate_cache_key(op.q)].cached = FALSE

\* A result that came from a cache hit (cached = true) stored under a query
\* that another, differently written query normalises to.
C10_Witness ==
    /\ op.name = "set"
    /\ op.q = <<"A", " ">>
    /\ op.r[1].cached
    /\ get(Cache, <<"a">>) # None
    /\ get(Cache, <<"b">>) = None

====
